---- MODULE Spec2Model ----
(***************************************************************************)
(* NanoChat backend: the Blockchain ledger (chain, pending transaction     *)
(* pool, block sealing), the SmartContract engine (deadline-gated          *)
(* transfers posted into the same pool) with the two HTTP handlers that    *)
(* call them, and the Chat relay (nickname registry and broadcast over the *)
(* WebSocket connections), as in src/nanochat-mobile-complete.js.          *)
(*                                                                         *)
(* JavaScript arrays are objects: the pool `this.transactions` and every   *)
(* block's `transactions` field are references into `heap`, so that the    *)
(* aliasing made at line 104 and undone at line 108 is part of the model.  *)
(* calculateHash returns a Promise (line 91-92): a hash is an object with  *)
(* an identity (pid) that will resolve to the digest of the serialised     *)
(* input.  JavaScript indices are 0-based, TLA+ sequences 1-based: the JS  *)
(* element a[i] is the TLA+ element a[i + 1].                              *)
(*                                                                         *)
(* Node runs every callback to completion and then drains the microtask    *)
(* queue: the continuation of `await CryptoUtils.encrypt(..)` (lines 33,   *)
(* 44) runs before the next callback starts.  The clock alone advances at  *)
(* any moment.  mineBlock and executeContract are synchronous and have no  *)
(* caller in the repository: they are called from a callback of their own. *)
(*                                                                         *)
(* The WebSocket server is the `ws` library: a connection is in            *)
(* wss.clients from its acceptance until its close, its readyState goes    *)
(* OPEN, then CLOSING when the closing handshake starts (no message is     *)
(* read from then on), then CLOSED, and its 'close' listeners run once, at *)
(* CLOSED, the library's own (which takes it out of wss.clients) first.    *)
(***************************************************************************)
EXTENDS Integers, Sequences, FiniteSets, TLC

\* ------------------------------------------------------------------ bounds
MaxTime == 3
MaxBlocks == 3
MaxTx == 2
MaxContracts == 2
MaxConns == 2
MaxEvents == 3
MaxMixed == 1

\* ------------------------------------------------------------------ inputs
\* request bodies of POST /transfer
TransferBodies ==
    { [sender |-> "B", receiver |-> "A", amount |-> -1] }
\* request bodies of POST /transfer requests in flight together: they differ
\* in their amount, which tells the requests apart
ConcurrentBodies ==
    { [sender |-> "A", receiver |-> "B", amount |-> a] : a \in {1, 2} }
\* the deadlines of the contracts: one the clock can pass, reach and precede
Conditions == {2}
\* request bodies of POST /smartcontract
ContractBodies ==
    { [partyA |-> "A", partyB |-> "B", condition |-> c, amount |-> 50] : c \in Conditions }
\* arguments of mineBlock; the body of mineBlock never reads it
Difficulties == {1, 4}
\* the WebSocket connections, numbered in the order they are accepted
Conns == 1..MaxConns
\* the nicknames and contents of the chat messages
Nicknames == {"alice", "bob"}
Contents == {"hi"}
\* arguments of executeContract: every id in range, and MaxContracts, which
\* is never in range
ExecIds == 0..MaxContracts

\* now          the reading of Date.now(), non-decreasing
\* chain        Blockchain.chain, the blocks; a block's transactions field is
\*              a reference into heap
\* heap         the transaction arrays allocated so far, by reference
\* transactions Blockchain.transactions, the reference of the pool's array
\* contracts    SmartContract.contracts
\* microtasks   the continuations of the handlers suspended at their await
\* submitted    history: the arguments of the createTransaction calls, in
\*              call order
\* execLog      history: for each contract, how many executeContract calls
\*              returned true and how many called createTransaction
\* last         history: the last call made, its argument and what it returned
\*              (ref: the position of the returned block or contract)
\* clients      wss.clients, the connections the server tracks
\* readyState   ws.readyState of every connection ("NONE": not accepted yet)
\* users        Chat.users, a Map: its entries [nickname, client] in
\*              insertion order
\* inbox        for every connection, what client.send was given, in order
\* log          history: every broadcast made, with the connections whose
\*              readyState was OPEN when it was made
\* event        history: the last chat event handled
\* handled      history: the number of chat events handled
VARIABLES now, chain, heap, transactions, contracts, microtasks,
          submitted, execLog, last,
          clients, readyState, users, inbox, log, event, handled

ledgerVars == <<now, chain, heap, transactions, contracts, microtasks,
                submitted, execLog, last>>

chatVars == <<clients, readyState, users, inbox, log, event, handled>>

vars == <<ledgerVars, chatVars>>

\* ----------------------------------------------------------------- helpers
\* JSON.stringify of a previousHash value: a string is kept, a Promise object
\* has no enumerable property and serialises as {}
stringify(previousHash) ==
    IF previousHash.type = "string" THEN previousHash.str ELSE "{}"

\* the string '0' as a JavaScript value
StringValue(s) == [type |-> "string", str |-> s, pid |-> 0, digest |-> <<>>]

\* Blockchain.calculateHash: scrypt(..).then(..) is a new Promise object
\* (identity pid) that resolves to the scrypt digest of the serialised fields;
\* the digest is modelled as the serialised input itself (scrypt is
\* deterministic).  The serialisation is made when calculateHash is called.
calculateHash(index, previousHash, timestamp, txs, pid) ==
    [type |-> "Promise", str |-> "", pid |-> pid,
     digest |-> <<index, stringify(previousHash), timestamp, txs>>]

\* mutant of genesisBlock: transactions: this.transactions, the genesis
\* block shares the array of the pool (array 1)
genesisBlockSharingPool(t0, t1, ref) ==
    [index |-> 0,
     previousHash |-> StringValue("0"),
     timestamp |-> t0,
     transactions |-> 1,
     hash |-> calculateHash(0, StringValue("0"), t1, <<>>, 1)]

\* the block built by Blockchain.genesisBlock; Date.now() is read twice,
\* t0 for the timestamp field and t1 for the hash; ref is the new empty array
genesisBlock(t0, t1, ref) ==
    [index |-> 0,
     previousHash |-> StringValue("0"),
     timestamp |-> t0,
     transactions |-> ref,
     hash |-> calculateHash(0, StringValue("0"), t1, <<>>, 1)]

\* mutant of createTransaction: the transaction pushed twice
createTransactionTwice(pool, sender, receiver, amount) ==
    pool \o << [sender |-> sender, receiver |-> receiver, amount |-> amount],
               [sender |-> sender, receiver |-> receiver, amount |-> amount] >>

\* Blockchain.createTransaction: push of {sender, receiver, amount} on the
\* array the pool refers to
createTransaction(pool, sender, receiver, amount) ==
    Append(pool, [sender |-> sender, receiver |-> receiver, amount |-> amount])

\* a chat event, as the ghost variable `event` records it
Event(type, conn, nickname, content) ==
    [type |-> type, conn |-> conn, nickname |-> nickname, content |-> content]

\* the value returned by a call, as the ghost variable `last` records it
Ret(op, arg, ret, ref) == [op |-> op, arg |-> arg, ret |-> ret, ref |-> ref]

\* -------------------------------------------------------------------- Init
\* new Blockchain() and new SmartContract(blockchain), lines 25-27:
\* this.chain = [], this.transactions = [] (array 1), genesisBlock() with
\* its own transactions: [] (array 2); this.contracts = []
Init ==
    \E t0 \in {1}, t1 \in {1, 2} :
        /\ now = t1
        /\ heap = << <<>>, <<>> >>
        /\ transactions = 1
        /\ chain = << genesisBlock(t0, t1, 2) >>
        /\ contracts = <<>>
        /\ microtasks = <<>>
        /\ submitted = <<>>
        /\ execLog = <<>>
        /\ last = Ret("init", 0, "undefined", 0)
        /\ clients = {}
        /\ readyState = [c \in Conns |-> "NONE"]
        /\ users = <<>>
        /\ inbox = [c \in Conns |-> <<>>]
        /\ log = <<>>
        /\ event = Event("init", 0, "", "")
        /\ handled = 0

\* ----------------------------------------------------------------- actions
\* the clock advances
Tick ==
    /\ now < MaxTime
    /\ now' = now + 1
    /\ last' = Ret("tick", 0, "undefined", 0)
    /\ UNCHANGED <<chain, heap, transactions, contracts, microtasks, submitted, execLog>>
    /\ UNCHANGED chatVars

\* app.post('/transfer') up to its await: the continuation is queued.  A
\* handler is called from an event callback, which starts with the microtask
\* queue drained
TransferRequest(body) ==
    /\ microtasks = <<>>
    /\ Len(submitted) < MaxTx
    /\ microtasks' = Append(microtasks, [route |-> "/transfer", body |-> body])
    /\ last' = Ret("POST /transfer", 0, "undefined", 0)
    /\ UNCHANGED <<now, chain, heap, transactions, contracts, submitted, execLog>>
    /\ UNCHANGED chatVars

\* app.post('/transfer') after its await: blockchain.createTransaction
TransferResume ==
    /\ microtasks # <<>>
    /\ Head(microtasks).route = "/transfer"
    /\ LET b == Head(microtasks).body IN
        /\ heap' = [heap EXCEPT ![transactions] =
                        createTransaction(@, b.sender, b.receiver, b.amount)]
        /\ submitted' = Append(submitted,
                        [sender |-> b.sender, receiver |-> b.receiver, amount |-> b.amount])
    /\ microtasks' = Tail(microtasks)
    /\ last' = Ret("createTransaction", 0, "undefined", 0)
    /\ UNCHANGED <<now, chain, transactions, contracts, execLog>>
    /\ UNCHANGED chatVars

\* mutant of lastHash: the hash of the first block, this.chain[0].hash
lastHashOfGenesis == chain[1].hash

\* line 102: the hash of the last block of the chain
lastHash == chain[Len(chain)].hash

\* mutant of newBlock: index: this.chain.length + 1, the blocks after the
\* genesis block numbered from 2
newBlockNumberedFromTwo ==
    [index |-> Len(chain) + 1,
     previousHash |-> lastHash,
     timestamp |-> now,
     transactions |-> transactions,
     hash |-> calculateHash(Len(chain) + 1, lastHash, now, heap[transactions],
                            Len(chain) + 1)]

\* lines 100-106 of Blockchain.mineBlock: the new block; its transactions
\* field is the pool's array itself (a reference), and the hash is taken
\* over the contents of that array at this moment
newBlock ==
    [index |-> Len(chain),
     previousHash |-> lastHash,
     timestamp |-> now,
     transactions |-> transactions,
     hash |-> calculateHash(Len(chain), lastHash, now, heap[transactions],
                            Len(chain) + 1)]

\* mutant of resetPool: line 108 left out, the pool keeps its array
resetPoolForgotten(h, ref) ==
    [heap |-> h, transactions |-> ref]

\* mutant of resetPool: this.transactions.length = 0, the array is emptied
\* in place and stays shared with the block
resetPoolInPlace(h, ref) ==
    [heap |-> [h EXCEPT ![ref] = <<>>], transactions |-> ref]

\* line 108, this.transactions = []: the pool becomes a new empty array and
\* the old array is left to the block that refers to it
resetPool(h, ref) ==
    [heap |-> Append(h, <<>>), transactions |-> Len(h) + 1]

\* Blockchain.mineBlock(difficulty)
MineBlock(difficulty) ==
    /\ microtasks = <<>>
    /\ Len(chain) < MaxBlocks
    /\ LET block == newBlock
           r == resetPool(heap, transactions)
       IN  /\ chain' = Append(chain, block)
           /\ heap' = r.heap
           /\ transactions' = r.transactions
           /\ last' = Ret("mineBlock", 0, "block", Len(chain))
    /\ UNCHANGED <<now, contracts, microtasks, submitted, execLog>>
    /\ UNCHANGED chatVars

\* app.post('/smartcontract') up to its await: the continuation is queued
SmartcontractRequest(body) ==
    /\ microtasks = <<>>
    /\ Len(contracts) < MaxContracts
    /\ microtasks' = Append(microtasks, [route |-> "/smartcontract", body |-> body])
    /\ last' = Ret("POST /smartcontract", 0, "undefined", 0)
    /\ UNCHANGED <<now, chain, heap, transactions, contracts, submitted, execLog>>
    /\ UNCHANGED chatVars

\* mutant of createContract: ids counted from 1, id: this.contracts.length + 1
createContractFromOne(partyA, partyB, condition, amount) ==
    [id |-> Len(contracts) + 1,
     partyA |-> partyA,
     partyB |-> partyB,
     condition |-> condition,
     amount |-> amount,
     timestamp |-> now,
     executed |-> FALSE]

\* lines 158-166 of SmartContract.createContract: the new contract
createContract(partyA, partyB, condition, amount) ==
    [id |-> Len(contracts),
     partyA |-> partyA,
     partyB |-> partyB,
     condition |-> condition,
     amount |-> amount,
     timestamp |-> now,
     executed |-> FALSE]

\* app.post('/smartcontract') after its await: smartContract.createContract
SmartcontractResume ==
    /\ microtasks # <<>>
    /\ Head(microtasks).route = "/smartcontract"
    /\ LET b == Head(microtasks).body
           contract == createContract(b.partyA, b.partyB, b.condition, b.amount)
       IN  /\ contracts' = Append(contracts, contract)
           /\ execLog' = Append(execLog, [trues |-> 0, posts |-> 0])
           /\ last' = Ret("createContract", 0, "contract", contract.id)
    /\ microtasks' = Tail(microtasks)
    /\ UNCHANGED <<now, chain, heap, transactions, submitted>>
    /\ UNCHANGED chatVars

\* line 172, this.contracts[id]: defined exactly for the indices of the array
defined(id) == id \in 0..(Len(contracts) - 1)

\* line 173: !contract || contract.executed
rejected(id) == ~defined(id) \/ contracts[id + 1].executed

\* mutant of permitted: the deadline itself excluded, Date.now() < condition
permittedStrictly(t, condition) == t < condition

\* mutant of permitted: the comparison turned round, Date.now() >= condition
permittedAfter(t, condition) == t >= condition

\* line 174: Date.now() <= contract.condition
permitted(t, condition) == t <= condition

\* mutant of executeContract: line 173 without `|| contract.executed`
executeContractAgain(id, t) ==
    IF ~defined(id)
    THEN [ret |-> "false", post |-> FALSE, mark |-> FALSE]
    ELSE IF permitted(t, contracts[id + 1].condition)
         THEN [ret |-> "true", post |-> TRUE, mark |-> TRUE]
         ELSE [ret |-> "false", post |-> FALSE, mark |-> FALSE]

\* mutant of executeContract: contract.executed = true moved before the
\* deadline test of line 174
executeContractMarkFirst(id, t) ==
    IF rejected(id)
    THEN [ret |-> "false", post |-> FALSE, mark |-> FALSE]
    ELSE IF permitted(t, contracts[id + 1].condition)
         THEN [ret |-> "true", post |-> TRUE, mark |-> TRUE]
         ELSE [ret |-> "false", post |-> FALSE, mark |-> TRUE]

\* mutant of executeContract: line 173 without `!contract ||`, so that
\* reading contract.executed of undefined throws a TypeError
executeContractUnguarded(id, t) ==
    IF ~defined(id)
    THEN [ret |-> "TypeError", post |-> FALSE, mark |-> FALSE]
    ELSE IF contracts[id + 1].executed
         THEN [ret |-> "false", post |-> FALSE, mark |-> FALSE]
         ELSE IF permitted(t, contracts[id + 1].condition)
              THEN [ret |-> "true", post |-> TRUE, mark |-> TRUE]
              ELSE [ret |-> "false", post |-> FALSE, mark |-> FALSE]

\* SmartContract.executeContract(id) when Date.now() reads t: the value it
\* returns, whether it calls blockchain.createTransaction (line 175) and
\* whether it sets contract.executed (line 176)
executeContract(id, t) ==
    IF rejected(id)
    THEN [ret |-> "false", post |-> FALSE, mark |-> FALSE]
    ELSE IF permitted(t, contracts[id + 1].condition)
         THEN [ret |-> "true", post |-> TRUE, mark |-> TRUE]
         ELSE [ret |-> "false", post |-> FALSE, mark |-> FALSE]

\* a call of SmartContract.executeContract(id)
ExecuteContract(id) ==
    /\ microtasks = <<>>
    /\ LET o == executeContract(id, now) IN
        /\ IF o.post
           THEN /\ Len(submitted) < MaxTx
                /\ LET c == contracts[id + 1] IN
                    /\ heap' = [heap EXCEPT ![transactions] =
                            createTransaction(@, c.partyA, c.partyB, c.amount)]
                    /\ submitted' = Append(submitted,
                            [sender |-> c.partyA, receiver |-> c.partyB,
                             amount |-> c.amount])
           ELSE UNCHANGED <<heap, submitted>>
        /\ contracts' = IF o.mark
                        THEN [contracts EXCEPT ![id + 1].executed = TRUE]
                        ELSE contracts
        /\ execLog' = IF defined(id)
                      THEN [execLog EXCEPT ![id + 1] =
                              [trues |-> @.trues + (IF o.ret = "true" THEN 1 ELSE 0),
                               posts |-> @.posts + (IF o.post THEN 1 ELSE 0)]]
                      ELSE execLog
        /\ last' = Ret("executeContract", id, o.ret, 0)
    /\ UNCHANGED <<now, chain, transactions, microtasks>>
    /\ UNCHANGED chatVars

Next ==
    \/ Tick
    \/ \E body \in TransferBodies : TransferRequest(body)
    \/ TransferResume
    \/ \E body \in ContractBodies : SmartcontractRequest(body)
    \/ SmartcontractResume
    \/ \E difficulty \in Difficulties : MineBlock(difficulty)
    \/ \E id \in ExecIds : ExecuteContract(id)

Spec == Init /\ [][Next]_vars

\* -------------------------------------------------------------------- chat
\* line 124: `${data.nickname} si e' connesso!` (the accented letter of the
\* source is written e' here)
joined(nickname) == nickname \o " si e' connesso!"

\* mutant of said: the nickname left out of the chat line
saidContentOnly(nickname, content) == content

\* line 126: `${data.nickname}: ${data.content}`
said(nickname, content) == nickname \o ": " \o content

\* line 134: `${nickname} si e' disconnesso!`
left(nickname) == nickname \o " si e' disconnesso!"

\* line 144: JSON.stringify({ type: 'message', content: message })
outbound(message) == [type |-> "message", content |-> message]

\* the positions of the entries of Map us with key nickname (none or one)
keyAt(us, nickname) == {i \in 1..Len(us) : us[i].nickname = nickname}

\* mutant of usersSet: the registry kept as a list, every login pushed
usersSetPush(us, nickname, ws) ==
    Append(us, [nickname |-> nickname, client |-> ws])

\* mutant of usersSet: if (!this.users.has(nickname)), a taken nickname is
\* left to its connection
usersSetIfAbsent(us, nickname, ws) ==
    IF keyAt(us, nickname) = {}
    THEN Append(us, [nickname |-> nickname, client |-> ws])
    ELSE us

\* line 123, this.users.set(nickname, ws): the value of an existing key is
\* replaced where it stands, a new key is added at the end
usersSet(us, nickname, ws) ==
    IF keyAt(us, nickname) = {}
    THEN Append(us, [nickname |-> nickname, client |-> ws])
    ELSE [i \in 1..Len(us) |->
            IF us[i].nickname = nickname
            THEN [nickname |-> nickname, client |-> ws]
            ELSE us[i]]

\* mutant of recipients: line 143 left out, every tracked connection is
\* sent to
recipientsAll(cl, rs) == cl

\* the connections broadcast sends to, lines 142-143: those of wss.clients
\* (cl) whose readyState (rs) is OPEN
recipients(cl, rs) == {c \in cl : rs[c] = "OPEN"}

\* mutant of broadcast: client.send called twice for each open connection
broadcastTwice(message, cl, rs, inb) ==
    [c \in Conns |->
        IF c \in recipients(cl, rs)
        THEN inb[c] \o <<outbound(message), outbound(message)>>
        ELSE inb[c]]

\* Chat.broadcast(message) on the inboxes inb
broadcast(message, cl, rs, inb) ==
    [c \in Conns |->
        IF c \in recipients(cl, rs) THEN Append(inb[c], outbound(message)) ELSE inb[c]]

\* the broadcasts of the messages msgs, one after the other
RECURSIVE broadcastAll(_, _, _, _)
broadcastAll(msgs, cl, rs, inb) ==
    IF msgs = <<>> THEN inb
    ELSE broadcastAll(Tail(msgs), cl, rs, broadcast(Head(msgs), cl, rs, inb))

\* history: the broadcasts of msgs added to the log lg
RECURSIVE logged(_, _, _)
logged(msgs, rs, lg) ==
    IF msgs = <<>> THEN lg
    ELSE logged(Tail(msgs), rs,
                Append(lg, [content |-> Head(msgs),
                            open |-> {c \in Conns : rs[c] = "OPEN"}]))

\* lines 131-132: the nicknames of the entries of us whose client is ws, in
\* the order forEach visits them
matching(us, ws) ==
    LET hit == SelectSeq(us, LAMBDA e : e.client = ws)
    IN  [i \in 1..Len(hit) |-> hit[i].nickname]

\* mutant of remaining: the forEach replaced by a search that stops at the
\* first entry of the closed connection, only that one is deleted
remainingFirstOnly(us, ws) ==
    LET hits == {i \in 1..Len(us) : us[i].client = ws} IN
    IF hits = {} THEN us
    ELSE LET f == CHOOSE i \in hits : \A j \in hits : i <= j
         IN  SubSeq(us, 1, f - 1) \o SubSeq(us, f + 1, Len(us))

\* mutant of remaining: this.users.delete(client), a key the Map never has
remainingWrongKey(us, ws) == us

\* mutant of remaining: line 132 left out, every entry is deleted
remainingNone(us, ws) == <<>>

\* line 133, this.users.delete(nickname) for every matching entry: what is
\* left of us
remaining(us, ws) == SelectSeq(us, LAMBDA e : e.client # ws)

\* the departure notifications of the nicknames ns, line 134
RECURSIVE departures(_)
departures(ns) ==
    IF ns = <<>> THEN <<>> ELSE <<left(Head(ns))>> \o departures(Tail(ns))

\* line 119, wss.on('connection'): the next connection is accepted, is OPEN
\* and in wss.clients, and gets its two listeners
Connect(c) ==
    /\ readyState[c] = "NONE"
    /\ \A d \in Conns : d < c => readyState[d] # "NONE"
    /\ readyState' = [readyState EXCEPT ![c] = "OPEN"]
    /\ clients' = clients \cup {c}
    /\ UNCHANGED <<users, inbox, log, event, handled>>
    /\ UNCHANGED ledgerVars

\* lines 120-124: a message {type: 'login', nickname} read from connection c
Login(c, nickname) ==
    /\ readyState[c] = "OPEN"
    /\ handled < MaxEvents
    /\ users' = usersSet(users, nickname, c)
    /\ inbox' = broadcast(joined(nickname), clients, readyState, inbox)
    /\ log' = logged(<<joined(nickname)>>, readyState, log)
    /\ event' = Event("login", c, nickname, "")
    /\ handled' = handled + 1
    /\ UNCHANGED <<clients, readyState>>
    /\ UNCHANGED ledgerVars

\* lines 120-121, 125-126: a message {type: 'message', nickname, content}
\* read from connection c
Message(c, nickname, content) ==
    /\ readyState[c] = "OPEN"
    /\ handled < MaxEvents
    /\ inbox' = broadcast(said(nickname, content), clients, readyState, inbox)
    /\ log' = logged(<<said(nickname, content)>>, readyState, log)
    /\ event' = Event("message", c, nickname, content)
    /\ handled' = handled + 1
    /\ UNCHANGED <<clients, readyState, users>>
    /\ UNCHANGED ledgerVars

\* the closing handshake of connection c starts: readyState is CLOSING, no
\* listener of the chat runs
CloseStart(c) ==
    /\ readyState[c] = "OPEN"
    /\ readyState' = [readyState EXCEPT ![c] = "CLOSING"]
    /\ UNCHANGED <<clients, users, inbox, log, event, handled>>
    /\ UNCHANGED ledgerVars

\* lines 130-137: connection c is closed, with or without a handshake; it is
\* CLOSED and out of wss.clients when the 'close' listener of the chat runs
Close(c) ==
    /\ readyState[c] \in {"OPEN", "CLOSING"}
    /\ handled < MaxEvents
    /\ readyState' = [readyState EXCEPT ![c] = "CLOSED"]
    /\ clients' = clients \ {c}
    /\ users' = remaining(users, c)
    /\ inbox' = broadcastAll(departures(matching(users, c)), clients', readyState', inbox)
    /\ log' = logged(departures(matching(users, c)), readyState', log)
    /\ event' = Event("close", c, "", "")
    /\ handled' = handled + 1
    /\ UNCHANGED ledgerVars

ChatNext ==
    \/ \E c \in Conns : Connect(c)
    \/ \E c \in Conns, nickname \in Nicknames : Login(c, nickname)
    \/ \E c \in Conns, nickname \in Nicknames, content \in Contents :
            Message(c, nickname, content)
    \/ \E c \in Conns : CloseStart(c)
    \/ \E c \in Conns : Close(c)

\* the chat alone; the ledger stays as constructed, with the first of its two
\* possible genesis blocks
ChatInit == Init /\ now = 1

SpecChat == ChatInit /\ [][ChatNext]_vars

\* the server as a whole, lines 25-60: the HTTP handlers of the ledger and the
\* contract engine, the sealing of a block, and the handlers of the chat
\* relay, on one event loop
MixedNext ==
    \/ \E body \in TransferBodies : TransferRequest(body)
    \/ TransferResume
    \/ \E body \in ContractBodies : SmartcontractRequest(body)
    \/ SmartcontractResume
    \/ \E difficulty \in Difficulties : MineBlock(difficulty)
    \/ (microtasks = <<>> /\ handled < MaxMixed /\ ChatNext)

SpecMixed == ChatInit /\ [][MixedNext]_vars

\* mutant of enqueue: the continuation put at the head of the queue, the
\* latest await resumed first
enqueueFirst(q, job) == <<job>> \o q

\* line 33, await of the promise an async function returned: the
\* continuation is put at the tail of the microtask queue q
enqueue(q, job) == Append(q, job)

\* app.post('/transfer') up to its await, lines 31-33, for a request that
\* arrives while continuations of earlier requests are still queued:
\* CryptoUtils.encrypt (lines 191-196) has no await of its own, it runs to
\* its return inside this step, and the handler's continuation is queued
\* behind those of the requests before it
TransferArrives(body) ==
    /\ Len(submitted) + Len(microtasks) < MaxTx
    /\ microtasks' = enqueue(microtasks, [route |-> "/transfer", body |-> body])
    /\ last' = Ret("POST /transfer", 0, "undefined", 0)
    /\ UNCHANGED <<now, chain, heap, transactions, contracts, submitted, execLog>>
    /\ UNCHANGED chatVars

\* the ledger under POST /transfer requests whose handlers are started
\* before the continuations of earlier ones have run
TransfersNext ==
    \/ \E body \in ConcurrentBodies : TransferArrives(body)
    \/ TransferResume
    \/ \E difficulty \in Difficulties : MineBlock(difficulty)
    \/ Tick

SpecTransfers == Init /\ [][TransfersNext]_vars

\* ------------------------------------------------------------------ claims
\* the transaction sequence of the block at position i of chain c in heap h
TxsOf(c, h, i) == h[c[i].transactions]

\* the transactions of the blocks 1..n of the chain, in chain order
RECURSIVE Sealed(_)
Sealed(n) == IF n = 0 THEN <<>> ELSE Sealed(n - 1) \o TxsOf(chain, heap, n)

\* the pending pool
Pool == heap[transactions]

\* the fields of the block at position i of chain c, its transactions by value
BlockView(c, h, i) ==
    [index |-> c[i].index, previousHash |-> c[i].previousHash,
     timestamp |-> c[i].timestamp, transactions |-> TxsOf(c, h, i),
     hash |-> c[i].hash]

\* C1: in every reachable state every block after the first carries, as
\* previousHash, the very hash object of the block before it, and the first
\* block carries the genesis sentinel '0'
C1_ChainLinked ==
    /\ chain[1].previousHash = StringValue("0")
    /\ \A i \in 2..Len(chain) : chain[i].previousHash = chain[i - 1].hash

\* C1 witness: two blocks sealed after the genesis block, the first of them
\* with transactions
C1_Witness ==
    /\ Len(chain) = 3
    /\ TxsOf(chain, heap, 2) # <<>>

\* C2: in every reachable state the transactions of the blocks in chain order
\* followed by the pool are the submitted transactions in submission order
C2_NoLossNoDup == Sealed(Len(chain)) \o Pool = submitted

\* C2 witness: a transfer and a contract payment were submitted on the two
\* sides of a seal, one is in a block and the other in the pool
C2_Witness ==
    /\ Len(submitted) = 2
    /\ submitted[1] # submitted[2]
    /\ Len(Sealed(Len(chain))) = 1
    /\ Len(Pool) = 1

\* C3: every mineBlock call appends exactly one block, whose transactions are
\* the pool as it was before the call, returns that block and leaves the pool
\* empty; and mineBlock can be called with any difficulty on any pool
C3_SealTakesPool ==
    [][ /\ (Len(chain) < MaxBlocks /\ microtasks = <<>>)
            => \A d \in Difficulties : ENABLED MineBlock(d)
        /\ last'.op = "mineBlock" =>
            /\ Len(chain') = Len(chain) + 1
            /\ SubSeq(chain', 1, Len(chain)) = chain
            /\ TxsOf(chain', heap', Len(chain')) = Pool
            /\ last'.ret = "block"
            /\ last'.ref = Len(chain') - 1
            /\ heap'[transactions'] = <<>> ]_vars

\* C3 witness: mineBlock has just sealed a pool of two transactions
C3_Witness ==
    /\ last.op = "mineBlock"
    /\ Len(TxsOf(chain, heap, Len(chain))) = 2
    /\ Pool = <<>>

\* C4: no step changes a field of a block of the chain, by value of its
\* transactions too, removes a block or shortens the chain
C4_AppendOnly ==
    [][ /\ Len(chain') >= Len(chain)
        /\ \A i \in 1..Len(chain) :
              BlockView(chain', heap', i) = BlockView(chain, heap, i) ]_vars

\* C4 witness: a transaction was submitted after a block with transactions
\* was sealed
C4_Witness ==
    /\ last.op = "createTransaction"
    /\ Len(chain) >= 2
    /\ TxsOf(chain, heap, Len(chain)) # <<>>
    /\ Pool # <<>>
\* the transaction executeContract posts for contract c
PaymentOf(c) == [sender |-> c.partyA, receiver |-> c.partyB, amount |-> c.amount]

\* the step is a call executeContract(id)
ExecCall(id) == last'.op = "executeContract" /\ last'.arg = id

\* C5: for every contract at most one executeContract call has returned true
\* and at most one payment has been posted for it, and a call made after a
\* call that returned true returns false and posts nothing
C5_AtMostOnce ==
    [][ /\ \A i \in 1..Len(execLog') :
              execLog'[i].trues <= 1 /\ execLog'[i].posts <= 1
        /\ \A id \in ExecIds :
              (ExecCall(id) /\ defined(id) /\ execLog[id + 1].trues >= 1) =>
                  /\ last'.ret = "false"
                  /\ submitted' = submitted
                  /\ heap' = heap /\ transactions' = transactions ]_vars

\* C5 witness: executeContract has returned true for a contract and a later
\* call for the same contract, made while the deadline still allows it, has
\* returned false
C5_Witness ==
    /\ last.op = "executeContract" /\ last.ret = "false"
    /\ defined(last.arg)
    /\ execLog[last.arg + 1].trues = 1
    /\ now <= contracts[last.arg + 1].condition

\* C6: executed is false in a new contract, no step removes a contract or
\* changes a field of it other than executed, executed never goes from true
\* to false, and it goes from false to true only in an executeContract call
\* for that contract that returns true and appends its payment to the pool
C6_ExecutedLifecycle ==
    [][ /\ Len(contracts') >= Len(contracts)
        /\ \A i \in (Len(contracts) + 1)..Len(contracts') :
              contracts'[i].executed = FALSE
        /\ \A i \in 1..Len(contracts) :
              /\ [contracts'[i] EXCEPT !.executed = FALSE]
                    = [contracts[i] EXCEPT !.executed = FALSE]
              /\ contracts[i].executed => contracts'[i].executed
              /\ (~contracts[i].executed /\ contracts'[i].executed) =>
                    /\ last' = Ret("executeContract", i - 1, "true", 0)
                    /\ transactions' = transactions
                    /\ heap'[transactions'] = Append(Pool, PaymentOf(contracts[i]))
                    /\ submitted' = Append(submitted, PaymentOf(contracts[i])) ]_vars

\* C6 witness: a contract is executed and other operations have run since
C6_Witness ==
    /\ \E i \in 1..Len(contracts) : contracts[i].executed
    /\ last.op = "mineBlock"
    /\ Len(contracts) = 2

\* C7: a call for an existing contract that is not executed returns true
\* exactly when now <= condition, and then appends the contract's payment,
\* and nothing else, to the end of the pool and sets executed
C7_DeadlinePolicy ==
    [][ \A id \in ExecIds :
          (ExecCall(id) /\ defined(id) /\ ~contracts[id + 1].executed) =>
              /\ (last'.ret = "true") <=> (now <= contracts[id + 1].condition)
              /\ last'.ret \in {"true", "false"}
              /\ last'.ret = "true" =>
                    /\ transactions' = transactions
                    /\ heap'[transactions'] =
                          Append(Pool, PaymentOf(contracts[id + 1]))
                    /\ contracts'[id + 1].executed ]_vars

\* C7 witness: a call made at the deadline itself, now = condition, has
\* returned true, on a pool that held a transaction already
C7_Witness ==
    /\ last.op = "executeContract" /\ last.ret = "true"
    /\ now = contracts[last.arg + 1].condition
    /\ Len(Pool) = 2

\* C8: once now > condition for a contract that is not executed, this stays
\* so in every later state, and every executeContract call for it returns
\* false and leaves the pool, the chain and the contracts as they were
C8_ExpiredForever ==
    [][ \A i \in 1..Len(contracts) :
          (~contracts[i].executed /\ now > contracts[i].condition) =>
              /\ ~contracts'[i].executed
              /\ now' > contracts'[i].condition
              /\ ExecCall(i - 1) =>
                    /\ last'.ret = "false"
                    /\ heap' = heap /\ transactions' = transactions
                    /\ chain' = chain
                    /\ contracts' = contracts ]_vars

\* C8 witness: executeContract has returned false for a contract that is not
\* executed and whose deadline has passed
C8_Witness ==
    /\ last.op = "executeContract" /\ last.ret = "false"
    /\ defined(last.arg)
    /\ ~contracts[last.arg + 1].executed
    /\ now > contracts[last.arg + 1].condition

\* C9 as claimed: a call with an id that is out of range ends in a NotFound
\* outcome, which is not the false of an executed or expired contract, and
\* leaves the contracts and the pool as they were
C9_NotFoundOutcome ==
    [][ \A id \in ExecIds :
          (ExecCall(id) /\ ~defined(id)) =>
              /\ last'.ret = "NotFound"
              /\ contracts' = contracts
              /\ heap' = heap /\ transactions' = transactions ]_vars

\* C9 as amended: a call with an id that is out of range returns false, the
\* value returned for an executed or expired contract, and leaves the
\* contracts and the pool as they were
C9_OutOfRangeReturnsFalse ==
    [][ \A id \in ExecIds :
          (ExecCall(id) /\ ~defined(id)) =>
              /\ last'.ret = "false"
              /\ contracts' = contracts
              /\ heap' = heap /\ transactions' = transactions ]_vars

\* C9 witness: executeContract was called with an id that is out of range
\* while a contract exists and the pool holds a transaction
C9_Witness ==
    /\ last.op = "executeContract"
    /\ ~defined(last.arg)
    /\ Len(contracts) = 1
    /\ Pool # <<>>

\* C10: every stored contract has its position as id, and a createContract
\* call appends and returns a contract whose id is the number of contracts
\* created before it and whose executed is false
C10_SequentialIds ==
    [][ /\ \A i \in 1..Len(contracts') : contracts'[i].id = i - 1
        /\ last'.op = "createContract" =>
              /\ Len(contracts') = Len(contracts) + 1
              /\ SubSeq(contracts', 1, Len(contracts)) = contracts
              /\ last'.ret = "contract"
              /\ last'.ref = Len(contracts)
              /\ contracts'[Len(contracts')].id = Len(contracts)
              /\ contracts'[Len(contracts')].executed = FALSE ]_vars

\* C10 witness: createContract has just returned the second contract, after
\* the first one was executed
C10_Witness ==
    /\ last.op = "createContract"
    /\ Len(contracts) = 2
    /\ contracts[1].executed
\* ------------------------------------------------------------- chat claims
\* the step handles a chat event of the given type
ChatStep(type) == handled' = handled + 1 /\ event'.type = type

\* the connection nickname n is registered to in registry us (0: none)
OwnerOf(us, n) ==
    IF \E i \in 1..Len(us) : us[i].nickname = n
    THEN us[CHOOSE i \in 1..Len(us) : us[i].nickname = n].client
    ELSE 0

\* connection c has an entry in registry us
Registered(us, c) == \E i \in 1..Len(us) : us[i].client = c

\* what the broadcasts of the log entries from position k on give a
\* connection that is sent all of them
RECURSIVE Sent(_, _)
Sent(lg, k) ==
    IF k > Len(lg) THEN <<>>
    ELSE <<[type |-> "message", content |-> lg[k].content]>> \o Sent(lg, k + 1)

\* what connection c is due of the log entries from position k on: the
\* broadcasts made while it was open
RECURSIVE Due(_, _, _)
Due(lg, c, k) ==
    IF k > Len(lg) THEN <<>>
    ELSE (IF c \in lg[k].open
          THEN <<[type |-> "message", content |-> lg[k].content]>>
          ELSE <<>>) \o Due(lg, c, k + 1)

\* C11: what a connection has received is, in the order the events were
\* handled, every broadcast made while it was open, each exactly once
C11_OrderedExactlyOnce == \A c \in Conns : inbox[c] = Due(log, c, 1)

\* C11 witness: alice and bob have logged in on two connections and alice
\* has sent hi; both have received "alice: hi" once, after the joins
C11_Witness ==
    /\ event = Event("message", 1, "alice", "hi")
    /\ inbox[1] = << [type |-> "message", content |-> "alice si e' connesso!"],
                     [type |-> "message", content |-> "bob si e' connesso!"],
                     [type |-> "message", content |-> "alice: hi"] >>
    /\ inbox[2] = << [type |-> "message", content |-> "bob si e' connesso!"],
                     [type |-> "message", content |-> "alice: hi"] >>

\* C12: a login of nickname n on connection c leaves n registered to c, once,
\* leaves the other nicknames as they were, and sends one join notification
\* with n to every connection that is open, c among them, and to no other
C12_LoginRegistersAndAnnounces ==
    [][ ChatStep("login") =>
          LET n == event'.nickname
              c == event'.conn
          IN  /\ OwnerOf(users', n) = c
              /\ Cardinality({i \in 1..Len(users') : users'[i].nickname = n}) = 1
              /\ \A m \in Nicknames \ {n} : OwnerOf(users', m) = OwnerOf(users, m)
              /\ readyState[c] = "OPEN"
              /\ \A d \in Conns :
                    inbox'[d] =
                        IF readyState[d] = "OPEN"
                        THEN Append(inbox[d],
                                [type |-> "message",
                                 content |-> n \o " si e' connesso!"])
                        ELSE inbox[d] ]_vars

\* C12 witness: alice was registered to connection 1 and has just logged in
\* on connection 2, which was accepted after the first login
C12_Witness ==
    /\ event = Event("login", 2, "alice", "")
    /\ users = << [nickname |-> "alice", client |-> 2] >>
    /\ Len(inbox[1]) = 2
    /\ Len(inbox[2]) = 1

\* C13: the close of a registered connection c removes every entry of c and
\* no other, and sends the departure of each removed nickname to the
\* connections that are still open, and nothing to the others
C13_CloseRemovesAndAnnounces ==
    [][ (ChatStep("close") /\ Registered(users, event'.conn)) =>
          LET c == event'.conn
              gone == {i \in 1..Len(users) : users[i].client = c}
          IN  /\ ~Registered(users', c)
              /\ Len(users') = Len(users) - Cardinality(gone)
              /\ \A n \in Nicknames :
                    OwnerOf(users, n) # c => OwnerOf(users', n) = OwnerOf(users, n)
              /\ \A d \in Conns :
                    IF readyState'[d] = "OPEN"
                    THEN /\ Len(inbox'[d]) = Len(inbox[d]) + Cardinality(gone)
                         /\ SubSeq(inbox'[d], 1, Len(inbox[d])) = inbox[d]
                         /\ \A i \in gone :
                              \E k \in (Len(inbox[d]) + 1)..Len(inbox'[d]) :
                                 inbox'[d][k] =
                                    [type |-> "message",
                                     content |-> users[i].nickname
                                                 \o " si e' disconnesso!"]
                    ELSE inbox'[d] = inbox[d] ]_vars

\* C13 witness: alice has closed her connection while bob is registered on
\* another, open one, which has received her departure
C13_Witness ==
    /\ event = Event("close", 1, "", "")
    /\ users = << [nickname |-> "bob", client |-> 2] >>
    /\ readyState[2] = "OPEN"
    /\ inbox[2][Len(inbox[2])] =
          [type |-> "message", content |-> "alice si e' disconnesso!"]

\* C14: the close of a connection that has no entry in the registry changes
\* neither the registry nor what any connection has received: no departure
\* is broadcast
C14_CloseUnregisteredNoOp ==
    [][ (ChatStep("close") /\ ~Registered(users, event'.conn)) =>
          /\ users' = users
          /\ inbox' = inbox
          /\ log' = log ]_vars

\* C14 witness: connection 1 logged in as alice, connection 2 took the
\* nickname over, and connection 1 has closed: alice is still registered to 2
C14_Witness ==
    /\ event = Event("close", 1, "", "")
    /\ users = << [nickname |-> "alice", client |-> 2] >>
    /\ Len(log) = 2
    /\ Len(inbox[1]) = 2

\* C15: when nickname n is registered to c1 and c2 logs in with n, n is
\* registered to c2 alone, c1 keeps its readyState and its place in
\* wss.clients, and a connection without entry in the registry is sent
\* every broadcast made while it is open
C15_TakeoverKeepsOldOpen ==
    [][ /\ \A c1 \in Conns :
              (ChatStep("login") /\ OwnerOf(users, event'.nickname) = c1
                                 /\ event'.conn # c1) =>
                  /\ OwnerOf(users', event'.nickname) = event'.conn
                  /\ Cardinality({i \in 1..Len(users') :
                                    users'[i].nickname = event'.nickname}) = 1
                  /\ readyState'[c1] = readyState[c1]
                  /\ (c1 \in clients') = (c1 \in clients)
        /\ \A d \in Conns :
              (readyState'[d] = "OPEN" /\ ~Registered(users', d)) =>
                  inbox'[d] = inbox[d] \o Sent(log', Len(log) + 1) ]_vars

\* C15 witness: connection 2 has taken alice over from connection 1, and
\* connection 1, still open, has received the message sent afterwards
C15_Witness ==
    /\ event.type = "message"
    /\ users = << [nickname |-> "alice", client |-> 2] >>
    /\ readyState[1] = "OPEN"
    /\ Len(inbox[1]) = 3
    /\ Len(log) = 3

\* C16: a broadcast is sent to every connection that is open and to no
\* other, a message event leaves the registry as it was, and an entry leaves
\* the registry only when a close is handled
C16_BroadcastSkipsNonOpen ==
    [][ /\ \A d \in Conns :
              inbox'[d] = IF readyState'[d] = "OPEN"
                          THEN inbox[d] \o Sent(log', Len(log) + 1)
                          ELSE inbox[d]
        /\ ChatStep("message") => users' = users
        /\ \A n \in Nicknames :
              (OwnerOf(users, n) # 0 /\ OwnerOf(users', n) = 0)
                  => ChatStep("close") ]_vars

\* C16 witness: a message was broadcast while a registered connection was
\* CLOSING: it was skipped and is still registered
C16_Witness ==
    /\ event.type = "message"
    /\ \E d \in Conns :
          /\ readyState[d] = "CLOSING"
          /\ d \in clients
          /\ Registered(users, d)
          /\ d \notin log[Len(log)].open
          /\ Len(inbox[d]) < Len(log)

C19_HashCoversStoredFields ==
    \A i \in 1..Len(chain) :
        chain[i].hash.digest =
            << chain[i].index, stringify(chain[i].previousHash),
               chain[i].timestamp, TxsOf(chain, heap, i) >>

\* the blocks of chain c, their transactions by value
ChainView(c, h) == [i \in 1..Len(c) |-> BlockView(c, h, i)]

\* the step runs the continuation of the handler of the given route
Resumes(route) ==
    /\ microtasks # <<>>
    /\ Head(microtasks).route = route
    /\ microtasks' = Tail(microtasks)

\* C20: the handling of a chat event leaves the chain, the pool and the
\* contracts as they were; createTransaction adds exactly one transaction at
\* the end of the pool and leaves the chain and the contracts as they were;
\* createContract adds exactly one contract at the end of the contracts and
\* leaves the pool and the chain as they were
C20_ComponentsIndependent ==
    [][ /\ (chatVars' # chatVars) =>
              /\ ChainView(chain', heap') = ChainView(chain, heap)
              /\ heap'[transactions'] = heap[transactions]
              /\ contracts' = contracts
        /\ Resumes("/transfer") =>
              /\ Len(heap'[transactions']) = Len(heap[transactions]) + 1
              /\ SubSeq(heap'[transactions'], 1, Len(heap[transactions]))
                    = heap[transactions]
              /\ heap'[transactions'][Len(heap'[transactions'])] =
                    [sender |-> Head(microtasks).body.sender,
                     receiver |-> Head(microtasks).body.receiver,
                     amount |-> Head(microtasks).body.amount]
              /\ ChainView(chain', heap') = ChainView(chain, heap)
              /\ contracts' = contracts
        /\ Resumes("/smartcontract") =>
              /\ Len(contracts') = Len(contracts) + 1
              /\ SubSeq(contracts', 1, Len(contracts)) = contracts
              /\ heap'[transactions'] = heap[transactions]
              /\ ChainView(chain', heap') = ChainView(chain, heap)
      ]_vars

\* C20 witness: a chat event has been handled, a block with transactions
\* has been sealed, a transaction is pending and a contract exists
C20_Witness ==
    /\ handled = 1
    /\ event.type \in {"login", "message", "close"}
    /\ Len(chain) = 2
    /\ TxsOf(chain, heap, 2) # <<>>
    /\ heap[transactions] # <<>>
    /\ contracts # <<>>
    /\ last.op = "createTransaction"
\* ------------------------------------------------------------ last claims
\* C21: no entry of the registry ever refers to a connection whose close has
\* been handled: the close of c removes every nickname registered to c and
\* broadcasts one departure for each of them, in registry order, and a
\* closed connection stays closed and can no longer log in
C21_ClosedNeverRegistered ==
    /\ \A i \in 1..Len(users) : readyState[users[i].client] # "CLOSED"
    /\ [][ /\ \A i \in 1..Len(users') : readyState'[users'[i].client] # "CLOSED"
           /\ ChatStep("close") =>
                 LET c == event'.conn
                     gone == SelectSeq(users, LAMBDA e : e.client = c)
                 IN  /\ readyState'[c] = "CLOSED"
                     /\ ~Registered(users', c)
                     /\ Len(log') = Len(log) + Len(gone)
                     /\ \A k \in 1..Len(gone) :
                           log'[Len(log) + k].content =
                               gone[k].nickname \o " si e' disconnesso!"
                     /\ \A d \in Conns :
                           readyState'[d] = "OPEN" =>
                               inbox'[d] = inbox[d] \o Sent(log', Len(log) + 1)
           /\ \A c \in Conns :
                 readyState[c] = "CLOSED" =>
                     /\ readyState'[c] = "CLOSED"
                     /\ \A n \in Nicknames : ~ENABLED Login(c, n)
         ]_vars

\* C21 witness: connection 1 logged in as alice and as bob and has closed;
\* both nicknames are gone and the open connection 2 has received the two
\* departures
C21_Witness ==
    /\ event = Event("close", 1, "", "")
    /\ users = <<>>
    /\ readyState[1] = "CLOSED"
    /\ readyState[2] = "OPEN"
    /\ Len(inbox[2]) = 4
    /\ inbox[2][3] = [type |-> "message", content |-> "alice si e' disconnesso!"]
    /\ inbox[2][4] = [type |-> "message", content |-> "bob si e' disconnesso!"]
\* the transactions of the ledger, those of the chain's blocks in chain order
\* and then those of the pool, followed by the transactions of the requests
\* in flight in the order of their continuations
Arrived ==
    Sealed(Len(chain)) \o Pool \o
    [i \in 1..Len(microtasks) |->
        [sender |-> microtasks[i].body.sender,
         receiver |-> microtasks[i].body.receiver,
         amount |-> microtasks[i].body.amount]]

\* the step starts the handler of a POST /transfer request
Arrives == Len(microtasks') = Len(microtasks) + 1

\* C22: the transactions of the chain and the pool, followed by those of the
\* requests in flight, are at every moment the requests in their order of
\* arrival: an arriving request is added at the end, and no other step, the
\* resumption of a handler and the sealing of a block included, changes the
\* sequence; so a request received before another precedes it in the ledger
C22_ArrivalOrder ==
    [][ IF Arrives
        THEN /\ Len(Arrived') = Len(Arrived) + 1
             /\ SubSeq(Arrived', 1, Len(Arrived)) = Arrived
             /\ Arrived'[Len(Arrived')] =
                   [sender |-> microtasks'[Len(microtasks')].body.sender,
                    receiver |-> microtasks'[Len(microtasks')].body.receiver,
                    amount |-> microtasks'[Len(microtasks')].body.amount]
        ELSE Arrived' = Arrived ]_vars

\* C22 witness: two requests are in flight together, the one with amount 2
\* received first; its handler has just resumed and its transaction is in
\* the pool while the other request still waits
C22_Witness ==
    /\ last.op = "createTransaction"
    /\ Len(chain) = 1
    /\ Len(Pool) = 1
    /\ Pool[1].amount = 2
    /\ Len(microtasks) = 1
    /\ microtasks[1].body.amount = 1
\* the step is a completed call of Blockchain.mineBlock
Mines == last'.op = "mineBlock" /\ last' # last

\* the blocks of chain c are numbered from 0 by their position and their
\* timestamps do not decrease along the chain
Numbered(c) ==
    /\ \A i \in 1..Len(c) : c[i].index = i - 1
    /\ \A i \in 1..(Len(c) - 1) : c[i].timestamp <= c[i + 1].timestamp

\* C23: the chain starts with one block; in every state the block at
\* position i carries index i (counted from 0) and, the clock never going
\* back, the timestamps do not decrease along the chain; the chain grows by
\* exactly one block with every completed mineBlock call and with no other
\* step, so its length is 1 plus the number of those calls
C23_IndexIsPosition ==
    /\ Len(chain) = 1
    /\ Numbered(chain)
    /\ [][ /\ now' >= now
           /\ Numbered(chain')
           /\ Len(chain') = Len(chain) + (IF Mines THEN 1 ELSE 0)
           /\ SubSeq(chain', 1, Len(chain)) = chain ]_vars

\* C23 witness: two blocks have been sealed at different times after the
\* genesis block; the last one carries index 2
C23_Witness ==
    /\ last.op = "mineBlock"
    /\ Len(chain) = 3
    /\ chain[3].index = 2
    /\ chain[1].timestamp < chain[2].timestamp
    /\ chain[2].timestamp < chain[3].timestamp
====
